---- MODULE Spec2Model ----
(***************************************************************************)
(* A model of rgit: the object codec (Blob, Tree, Commit, GitObject), the  *)
(* staging index and update_index, and the HEAD / ref handling of          *)
(* commit_tree and update_ref.                                             *)
(*                                                                         *)
(* Byte strings are sequences of integers 0..255.  A fallible Rust call    *)
(* returns a record with a tag: "Some"/"Ok" with a value, "None"/"Err",    *)
(* or "Panic" when the call aborts the thread (an out-of-range slice, a    *)
(* split_at beyond the end, an index out of bounds).                       *)
(***************************************************************************)
EXTENDS Integers, Sequences, FiniteSets, TLC

VARIABLES
    op,         \* the last operation performed
    src,        \* codec: the input drawn for the constructors and decoders
    obj,        \* codec: the object the last constructor built
    input,      \* codec: the byte buffer the last decode was given
    res,        \* codec: the result of the last decode
    index_file, \* index: the file .git/index
    ret,        \* index: what the last index operation returned
    head_file,  \* refs: the file .git/HEAD
    ref_file,   \* refs: the file .git/refs/heads/master
    commits,    \* refs: the commits built by commit_tree, oldest first
    ref_ret,    \* refs: what the last update_ref returned
    objects,    \* store: the directory .git/objects
    root        \* fs: the root Entity of the InMemFileSystem

vars ==
    <<op, src, obj, input, res, index_file, ret, head_file, ref_file, commits, ref_ret,
      objects, root>>

codec_vars == <<src, obj, input, res>>
index_vars == <<index_file, ret>>
refs_vars == <<head_file, ref_file, commits, ref_ret>>
store_vars == <<objects>>
fs_vars == <<root>>

-----------------------------------------------------------------------------
(* Bytes and the standard-library calls the code makes on them.            *)

NUL == 0
LF == 10
SP == 32

\* A file of the repository: missing, or its bytes.
Absent == [tag |-> "Absent"]
FileOf(bytes) == [tag |-> "File", bytes |-> bytes]
None == [tag |-> "None"]
Panic == [tag |-> "Panic"]
Some(v) == [tag |-> "Some", val |-> v]

Max(a, b) == IF a > b THEN a ELSE b

\* The index of the first occurrence of byte c in s, 0 when there is none.
FirstIdx(s, c) ==
    IF \E i \in 1..Len(s) : s[i] = c
    THEN CHOOSE i \in 1..Len(s) : s[i] = c /\ \A j \in 1..(i - 1) : s[j] # c
    ELSE 0

Tail_from(s, i) == SubSeq(s, i, Len(s))

\* slice::split(|b| b == c): every piece, the empty ones included.
RECURSIVE SplitOn(_, _)
SplitOn(s, c) ==
    LET i == FirstIdx(s, c)
    IN IF i = 0 THEN <<s>>
       ELSE <<SubSeq(s, 1, i - 1)>> \o SplitOn(Tail_from(s, i + 1), c)

\* slice::splitn(2, |b| b == c): at most two pieces, cut at the first c.
SplitN2(s, c) ==
    LET i == FirstIdx(s, c)
    IN IF i = 0 THEN <<s>> ELSE <<SubSeq(s, 1, i - 1), Tail_from(s, i + 1)>>

\* x.splitn(2, ' ').skip(1).flatten(): what follows the first c, or nothing.
AfterFirst(s, c) ==
    LET p == SplitN2(s, c) IN IF Len(p) = 2 THEN p[2] ELSE <<>>

\* char::is_whitespace on the one-byte characters.
IsWs(b) == b \in {9, 10, 11, 12, 13, 32}

\* s without its leading whitespace.
SkipWs(s) ==
    IF \A i \in 1..Len(s) : IsWs(s[i]) THEN <<>>
    ELSE Tail_from(s, CHOOSE i \in 1..Len(s) :
                          ~IsWs(s[i]) /\ \A j \in 1..(i - 1) : IsWs(s[j]))

\* The bytes of s before its first whitespace.
TakeWord(s) ==
    IF \A i \in 1..Len(s) : ~IsWs(s[i]) THEN s
    ELSE SubSeq(s, 1, (CHOOSE i \in 1..Len(s) :
                           IsWs(s[i]) /\ \A j \in 1..(i - 1) : ~IsWs(s[j])) - 1)

\* str::split_whitespace: the non-empty words between whitespace.
RECURSIVE SplitWhitespace(_)
SplitWhitespace(s) ==
    LET t == SkipWs(s)
        w == TakeWord(t)
    IN IF t = <<>> THEN <<>>
       ELSE <<w>> \o SplitWhitespace(Tail_from(t, Len(w) + 1))

\* str::trim: whitespace removed at both ends.
TrimEnd(s) ==
    IF \A i \in 1..Len(s) : IsWs(s[i]) THEN <<>>
    ELSE SubSeq(s, 1, CHOOSE i \in 1..Len(s) :
                          ~IsWs(s[i]) /\ \A j \in (i + 1)..Len(s) : IsWs(s[j]))

Trim(s) == TrimEnd(SkipWs(s))

IsCont(b, lo, hi) == b >= lo /\ b <= hi

\* The number of continuation bytes the lead byte b announces; -1 for a byte
\* that starts no character.
Utf8Need(b) ==
    IF b < 128 THEN 0
    ELSE IF b >= 194 /\ b <= 223 THEN 1
    ELSE IF b >= 224 /\ b <= 239 THEN 2
    ELSE IF b >= 240 /\ b <= 244 THEN 3
    ELSE -1

\* The character led by s[i] is complete and well formed.
Utf8CharAt(s, i) ==
    LET b == s[i]
        k == Utf8Need(b)
    IN /\ k >= 0
       /\ i + k <= Len(s)
       /\ \A j \in (i + 1)..(i + k) : IsCont(s[j], 128, 191)
       /\ b = 224 => s[i + 1] >= 160
       /\ b = 237 => s[i + 1] <= 159
       /\ b = 240 => s[i + 1] >= 144
       /\ b = 244 => s[i + 1] <= 143

\* String::from_utf8 succeeds: s is well-formed UTF-8.  Every byte either
\* leads a well-formed character or continues the one led just before it.
IsUtf8(s) ==
    \A i \in 1..Len(s) :
        IF IsCont(s[i], 128, 191)
        THEN \E l \in Max(1, i - 3)..(i - 1) :
                 /\ ~IsCont(s[l], 128, 191)
                 /\ Utf8Need(s[l]) >= i - l
                 /\ \A j \in (l + 1)..(i - 1) : IsCont(s[j], 128, 191)
        ELSE Utf8CharAt(s, i)

IsDigit(b) == b >= 48 /\ b <= 57

\* format!("{}", n) of an unsigned integer.
RECURSIVE ToDec(_)
ToDec(n) == IF n < 10 THEN <<48 + n>> ELSE ToDec(n \div 10) \o <<48 + (n % 10)>>

RECURSIVE DigitsValue(_)
DigitsValue(s) ==
    IF s = <<>> THEN 0 ELSE 10 * DigitsValue(SubSeq(s, 1, Len(s) - 1)) + (s[Len(s)] - 48)

AllDigits(s) == s # <<>> /\ \A i \in 1..Len(s) : IsDigit(s[i])

\* str::parse::<usize>: digits after an optional '+'.
ParseUnsigned(s) ==
    LET d == IF s # <<>> /\ s[1] = 43 THEN Tail(s) ELSE s
    IN IF AllDigits(d) THEN Some(DigitsValue(d)) ELSE None

\* str::parse::<i32> and parse::<i64>: digits after an optional sign.
ParseSigned(s) ==
    LET neg == s # <<>> /\ s[1] = 45
        d == IF s # <<>> /\ s[1] \in {43, 45} THEN Tail(s) ELSE s
    IN IF AllDigits(d) THEN Some(IF neg THEN 0 - DigitsValue(d) ELSE DigitsValue(d)) ELSE None

HexDigit(n) == IF n < 10 THEN 48 + n ELSE 87 + n

\* hex::encode: two lower-case hex digits per byte.
HexEncode(s) ==
    [i \in 1..(2 * Len(s)) |->
        IF i % 2 = 1 THEN HexDigit(s[(i + 1) \div 2] \div 16) ELSE HexDigit(s[i \div 2] % 16)]

RECURSIVE Flatten(_)
Flatten(ss) == IF ss = <<>> THEN <<>> ELSE ss[1] \o Flatten(Tail(ss))

\* Sha1::digest from the sha1 crate, which is not code of this repository: a
\* 20-byte value that is a function of every byte of its input and of their
\* order.  The model uses a rolling checksum in its place.
RECURSIVE Checksum(_, _, _)
Checksum(s, lo, hi) ==
    IF lo > hi THEN 0
    ELSE IF lo = hi THEN (lo * (s[lo] + 1)) % 65521
    ELSE LET mid == (lo + hi) \div 2
         IN (Checksum(s, lo, mid) + Checksum(s, mid + 1, hi)) % 65521

Sha1Digest(s) ==
    LET h == Checksum(s, 1, Len(s)) + Len(s)
    IN [i \in 1..20 |-> ((h \div i) + 7 * i * (h % 97)) % 256]

-----------------------------------------------------------------------------
(* object/mod.rs: ObjectType                                               *)

Str_blob == <<98, 108, 111, 98>>
Str_tree == <<116, 114, 101, 101>>
Str_commit == <<99, 111, 109, 109, 105, 116>>

ObjectType_to_string(t) ==
    CASE t = "Blob" -> Str_blob
      [] t = "Tree" -> Str_tree
      [] t = "Commit" -> Str_commit

ObjectType_from(s) ==
    LET header == SplitWhitespace(s)
    IN IF header = <<>> THEN None
       ELSE IF header[1] = Str_blob THEN Some("Blob")
       ELSE IF header[1] = Str_tree THEN Some("Tree")
       ELSE IF header[1] = Str_commit THEN Some("Commit")
       ELSE None

\* format!("{} {}\0", type, len)
Header(t, len) == ObjectType_to_string(t) \o <<SP>> \o ToDec(len) \o <<NUL>>

-----------------------------------------------------------------------------
(* object/blob.rs                                                          *)

Blob_new(content) == [kind |-> "Blob", size |-> Len(content), content |-> content]

Blob_from(bytes) ==
    IF IsUtf8(bytes) THEN Some([kind |-> "Blob", size |-> Len(bytes), content |-> bytes])
    ELSE None

Blob_to_string(b) == b.content

Blob_as_bytes(b) == Header("Blob", b.size) \o Blob_to_string(b)

\* A mutant of Blob_calc_hash: the digest of the payload alone.
Blob_calc_hash_payload(b) == Sha1Digest(Blob_to_string(b))

Blob_calc_hash(b) == Sha1Digest(Blob_as_bytes(b))

-----------------------------------------------------------------------------
(* object/tree.rs                                                          *)

File_new(mode, name, hash) == [mode |-> mode, name |-> name, hash |-> hash]

File_from(header, hash) ==
    IF ~IsUtf8(header) THEN None
    ELSE LET iter == SplitWhitespace(header)
             mode == IF iter = <<>> THEN None ELSE ParseUnsigned(iter[1])
         IN IF mode.tag = "None" \/ Len(iter) < 2 THEN None
            ELSE Some(File_new(mode.val, iter[2], hash))

File_encode(f) == ToDec(f.mode) \o <<SP>> \o f.name \o <<NUL>> \o f.hash

Tree_new(contents) == [kind |-> "Tree", contents |-> contents]

\* The try_fold of Tree::from over the pieces after the first: acc is the
\* entries so far, header the bytes the next entry is named by.
RECURSIVE Tree_fold(_, _, _)
Tree_fold(pieces, header, acc) ==
    IF pieces = <<>> THEN Some(acc)
    ELSE LET x == pieces[1]
         IN IF Len(x) < 20 THEN Panic     \* x.split_at(20) beyond the end of x
            ELSE LET file == File_from(header, SubSeq(x, 1, 20))
                 IN IF file.tag = "None" THEN None
                    ELSE Tree_fold(Tail(pieces), Tail_from(x, 21), Append(acc, file.val))

Tree_from(bytes) ==
    LET iter == SplitOn(bytes, NUL)
        contents == Tree_fold(Tail(iter), iter[1], <<>>)
    IN IF contents.tag = "Some" THEN Some(Tree_new(contents.val)) ELSE contents

Tree_content(t) == Flatten([i \in 1..Len(t.contents) |-> File_encode(t.contents[i])])

\* A mutant of Tree_as_bytes: the header counts the entries, not the bytes.
Tree_as_bytes_entry_count(t) == Header("Tree", Len(t.contents)) \o Tree_content(t)

Tree_as_bytes(t) == Header("Tree", Len(Tree_content(t))) \o Tree_content(t)

Tree_calc_hash(t) == Sha1Digest(Tree_as_bytes(t))

-----------------------------------------------------------------------------
(* object/commit.rs                                                        *)

Str_parent == <<112, 97, 114, 101, 110, 116>>
Str_author == <<97, 117, 116, 104, 111, 114>>
Str_comitter == <<99, 111, 109, 105, 116, 116, 101, 114>>

\* Rust's integer division, which truncates toward zero.
TruncDiv(a, b) == IF a < 0 THEN 0 - ((0 - a) \div b) ELSE a \div b

Abs(a) == IF a < 0 THEN 0 - a ELSE a

\* format!("{}", n) of a signed integer.
FmtSigned(n) == IF n < 0 THEN <<45>> \o ToDec(0 - n) ELSE ToDec(n)

\* format!("{:+05}", n): the sign, then the digits zero-padded to four.
RECURSIVE ZeroPad(_, _)
ZeroPad(d, w) == IF Len(d) >= w THEN d ELSE ZeroPad(<<48>> \o d, w)

FmtOffset(n) == <<IF n < 0 THEN 45 ELSE 43>> \o ZeroPad(ToDec(Abs(n)), 4)

TakeWhileNot(s, c) ==
    LET i == FirstIdx(s, c) IN IF i = 0 THEN s ELSE SubSeq(s, 1, i - 1)

SkipWhileNot(s, c) == Tail_from(s, Len(TakeWhileNot(s, c)) + 1)

\* str::splitn(3, " "): cut at the first two spaces.
SplitN3(s, c) ==
    LET p == SplitN2(s, c)
    IN IF Len(p) = 1 THEN p ELSE <<p[1]>> \o SplitN2(p[2], c)

\* str::trim_matches(|x| x == '<' || x == '>')
RECURSIVE TrimAngles(_)
TrimAngles(s) ==
    IF s # <<>> /\ s[1] \in {60, 62} THEN TrimAngles(Tail(s))
    ELSE IF s # <<>> /\ s[Len(s)] \in {60, 62} THEN TrimAngles(SubSeq(s, 1, Len(s) - 1))
    ELSE s

\* ts is the timestamp in seconds, offset the local-minus-UTC seconds of its
\* FixedOffset.
User_new(name, email, ts, offset) ==
    [name |-> name, email |-> email, ts |-> ts, offset |-> offset]

\* FixedOffset::east(secs) / west(secs): the local-minus-UTC seconds, or a
\* panic when secs is not within a day.
FixedOffset_east(secs) == IF Abs(secs) >= 86400 THEN Panic ELSE Some(secs)

FixedOffset_west(secs) == IF Abs(secs) >= 86400 THEN Panic ELSE Some(0 - secs)

User_offset(x) ==
    IF x < 0 THEN FixedOffset_west(TruncDiv(x, 100) * 60 * 60)
    ELSE FixedOffset_east(TruncDiv(x, 100) * 60 * 60)

User_from(bytes) ==
    LET name_bytes == TakeWhileNot(bytes, 60)
        info == SkipWhileNot(bytes, 60)
        into_iter == SplitN3(info, SP)
        email == TrimAngles(into_iter[1])
        ts == IF Len(into_iter) < 2 THEN None ELSE ParseSigned(into_iter[2])
        x == IF Len(into_iter) < 3 THEN None ELSE ParseSigned(into_iter[3])
    IN IF ~IsUtf8(name_bytes) \/ ~IsUtf8(info) THEN None
       ELSE IF ts.tag = "None" THEN None
       ELSE IF x.tag = "None" THEN None
       ELSE LET offset == User_offset(x.val)
            IN IF offset.tag = "Panic" THEN Panic
               ELSE Some(User_new(Trim(name_bytes), email, ts.val, offset.val))

User_to_string(u) ==
    u.name \o <<SP, 60>> \o u.email \o <<62, SP>> \o FmtSigned(u.ts) \o <<SP>>
        \o FmtOffset(TruncDiv(u.offset, 36))

Commit_new(tree, parent, author, comitter, message) ==
    [kind |-> "Commit", tree |-> tree, parent |-> parent, author |-> author,
     comitter |-> comitter, message |-> message]

NonEmpty(x) == x # <<>>

\* The second line of a commit: Ok(hash) for a parent line, Err(line) for any
\* other, and a panic for a line without a space (x[1] is out of bounds).
Commit_parent(lines) ==
    IF Len(lines) < 2 THEN [tag |-> "Err", val |-> <<>>]
    ELSE LET raw == SplitN2(lines[2], SP)
             x == [i \in 1..Len(raw) |-> IF IsUtf8(raw[i]) THEN raw[i] ELSE <<>>]
         IN IF Len(x) < 2 THEN Panic
            ELSE IF x[1] = Str_parent THEN [tag |-> "Ok", val |-> x[2]]
            ELSE [tag |-> "Err", val |-> x[1] \o <<SP>> \o x[2]]

\* User::from of what follows the first space of a line; None when the line
\* is missing.
Commit_user(line) ==
    IF line.tag = "None" THEN None ELSE User_from(AfterFirst(line.val, SP))

Line(lines, i) == IF i <= Len(lines) THEN Some(lines[i]) ELSE None

Commit_from(bytes) ==
    LET lines == SelectSeq(SplitOn(bytes, LF), NonEmpty)
        tree == IF lines = <<>> THEN <<>> ELSE AfterFirst(lines[1], SP)
        parent == Commit_parent(lines)
        \* the number of lines the iterator has yielded once the author is read
        used == IF parent.tag = "Ok" THEN 3 ELSE 2
        author == IF parent.tag = "Ok" THEN Commit_user(Line(lines, 3))
                  ELSE Commit_user(Some(parent.val))
        comitter == Commit_user(Line(lines, used + 1))
        message == Line(lines, used + 2)
    IN IF lines = <<>> \/ ~IsUtf8(tree) THEN None
       ELSE IF parent.tag = "Panic" THEN Panic
       ELSE IF author.tag # "Some" THEN author
       ELSE IF comitter.tag # "Some" THEN comitter
       ELSE IF message.tag = "None" \/ ~IsUtf8(message.val) THEN None
       ELSE Some(Commit_new(tree,
                            IF parent.tag = "Ok" THEN Some(parent.val) ELSE None,
                            author.val, comitter.val, message.val))

Commit_to_string(c) ==
    LET tree == Str_tree \o <<SP>> \o c.tree
        parent == IF c.parent.tag = "Some" THEN Str_parent \o <<SP>> \o c.parent.val \o <<LF>>
                  ELSE <<>>
        author == Str_author \o <<SP>> \o User_to_string(c.author)
        comitter == Str_comitter \o <<SP>> \o User_to_string(c.comitter)
    IN tree \o <<LF>> \o parent \o author \o <<LF>> \o comitter \o <<LF, LF>>
           \o c.message \o <<LF>>

Commit_as_bytes(c) ==
    LET content == Commit_to_string(c)
    IN Header("Commit", Len(content)) \o content

\* Commit::calc_hash, which GitObject::calc_hash calls; commit.rs does not
\* hold it.  The digest of the encoded commit, as for Blob and Tree and as
\* tests::git_object_calc_hash of object/mod.rs expects.
Commit_calc_hash(c) == Sha1Digest(Commit_as_bytes(c))

-----------------------------------------------------------------------------
(* object/mod.rs: GitObject                                                *)

GitObject_new(bytes) ==
    LET first == SplitN2(bytes, NUL)[1]
        obj_type == IF IsUtf8(first) THEN ObjectType_from(first) ELSE None
    IN IF obj_type.tag = "None" THEN None
       ELSE CASE obj_type.val = "Blob" -> Blob_from(bytes)
              [] obj_type.val = "Tree" -> Tree_from(bytes)
              [] obj_type.val = "Commit" -> Commit_from(bytes)

GitObject_calc_hash(o) ==
    CASE o.kind = "Blob" -> Blob_calc_hash(o)
      [] o.kind = "Tree" -> Tree_calc_hash(o)
      [] o.kind = "Commit" -> Commit_calc_hash(o)

GitObject_as_bytes(o) ==
    CASE o.kind = "Blob" -> Blob_as_bytes(o)
      [] o.kind = "Tree" -> Tree_as_bytes(o)
      [] o.kind = "Commit" -> Commit_as_bytes(o)

-----------------------------------------------------------------------------
(* The object codec as a state machine: the constructors the commands use  *)
(* (hash_object, write_tree, commit_tree), cat_file_p's decode of an       *)
(* encoded object, and Tree::from on a payload.                            *)

MaxBlobLen == 2
MaxFiles == 2

NoObject == [kind |-> "None"]

RECURSIVE SeqsUpTo(_, _)
SeqsUpTo(S, n) ==
    IF n = 0 THEN {<<>>}
    ELSE LET shorter == SeqsUpTo(S, n - 1)
         IN shorter \cup {Append(q, x) : q \in {r \in shorter : Len(r) = n - 1}, x \in S}

Str_aaabbbccc == <<97, 97, 97, 98, 98, 98, 99, 99, 99>>
Str_hello_git == <<104, 101, 108, 108, 111, 44, 32, 103, 105, 116>>

\* File contents given to hash_object: text, bytes holding NUL and newline,
\* and one buffer that is not UTF-8.
Contents == SeqsUpTo({97, NUL}, MaxBlobLen) \cup {Str_aaabbbccc, Str_hello_git, <<255>>}

Hash_a == [i \in 1..20 |-> 97]
Hash_nul == [i \in 1..20 |-> IF i = 5 THEN 0 ELSE 98]
Hashes == {Hash_a, Hash_nul}

Names == {<<97>>, <<98>>}

\* 100644 is the mode write_tree gives every entry, 40000 a directory's.
Modes == {100644, 40000}

Files == {File_new(m, n, h) : m \in Modes, n \in Names, h \in Hashes}

\* What may follow the last record of a tree payload: nothing, a record with
\* no NUL separator, and a record with fewer than 20 bytes after its NUL.
Tail_none == <<>>
Tail_no_nul == <<49, 32, 97>> \o Hash_a
Tail_short == <<49, 32, 97, NUL, 97, 98, 99, 100, 101>>
Tails == {Tail_none, Tail_no_nul, Tail_short}

Str_m == <<109>>
Str_first_commit == <<102, 105, 114, 115, 116, 32, 99, 111, 109, 109, 105, 116>>
Str_user == <<117, 115, 101, 114>>
Str_email == <<117, 64, 120>>

Messages == {Str_m, Str_first_commit}
Timestamps == {0, 1609642799}
\* The local offsets, in seconds, commit_tree may find: UTC, +09:00, -05:00.
Offsets == {0, 32400, -18000}

\* The inputs of the codec: the bytes of a file, the files of a tree with
\* the tail that follows their records, or the fields of a commit.
Sources ==
    {[kind |-> "content", bytes |-> c] : c \in Contents}
    \cup {[kind |-> "files", files |-> f, tail |-> t] :
              f \in SeqsUpTo(Files, MaxFiles), t \in Tails}
    \cup {[kind |-> "commit", parent |-> p, ts |-> ts, offset |-> o, message |-> m] :
              p \in {None, Some(HexEncode(Hash_a))}, ts \in Timestamps,
              o \in Offsets, m \in Messages}

\* .git/objects with no shard directory and no file: dirs are the names of
\* its directories, files the bytes of each file by <<directory, name>>.
EmptyStore == [dirs |-> {}, files |-> <<>>]

InitStoreIdle == objects = EmptyStore
InitFsIdle == root = [kind |-> "Dir", dir |-> <<>>]
InitIndexIdle == index_file = Absent /\ ret = None
InitRefsIdle == head_file = Absent /\ ref_file = Absent /\ commits = <<>> /\ ref_ret = None
InitCodecIdle == src = None /\ obj = NoObject /\ input = <<>> /\ res = None

InitCodec ==
    /\ op = [name |-> "init"]
    /\ src \in Sources
    /\ obj = NoObject
    /\ input = <<>>
    /\ res = None
    /\ InitIndexIdle
    /\ InitRefsIdle
    /\ InitStoreIdle
    /\ InitFsIdle

\* cmd::hash_object: Blob::from of a file's bytes.
HashObject ==
    /\ src.kind = "content"
    /\ op' = [name |-> "hash_object"]
    /\ input' = src.bytes
    /\ res' = Blob_from(src.bytes)
    /\ obj' = IF res'.tag = "Some" THEN res'.val ELSE NoObject
    /\ UNCHANGED <<src, index_vars, refs_vars, store_vars, fs_vars>>

\* Git::write_tree's Tree::new of the files it built.
WriteTree ==
    /\ src.kind = "files"
    /\ op' = [name |-> "write_tree"]
    /\ obj' = Tree_new(src.files)
    /\ input' = <<>>
    /\ res' = None
    /\ UNCHANGED <<src, index_vars, refs_vars, store_vars, fs_vars>>

\* Git::commit_tree's Commit::new, author and comitter the same user.
CommitNew ==
    /\ src.kind = "commit"
    /\ LET author == User_new(Str_user, Str_email, src.ts, src.offset)
       IN obj' = Commit_new(HexEncode(Hash_nul), src.parent, author, author, src.message)
    /\ op' = [name |-> "commit_new"]
    /\ input' = <<>>
    /\ res' = None
    /\ UNCHANGED <<src, index_vars, refs_vars, store_vars, fs_vars>>

\* cmd::cat_file_p after the decompression: GitObject::new of the encoded
\* bytes of the object built last.
CatFile ==
    /\ obj # NoObject
    /\ op' = [name |-> "cat_file"]
    /\ input' = GitObject_as_bytes(obj)
    /\ res' = GitObject_new(input')
    /\ UNCHANGED <<src, obj, index_vars, refs_vars, store_vars, fs_vars>>

\* Tree::from of a payload: the records of the files, then the tail.
TreeFrom ==
    /\ src.kind = "files"
    /\ op' = [name |-> "tree_from"]
    /\ input' = Flatten([i \in 1..Len(src.files) |-> File_encode(src.files[i])]) \o src.tail
    /\ res' = Tree_from(input')
    /\ obj' = NoObject
    /\ UNCHANGED <<src, index_vars, refs_vars, store_vars, fs_vars>>

NextCodec == HashObject \/ WriteTree \/ CommitNew \/ CatFile \/ TreeFrom

SpecCodec == InitCodec /\ [][NextCodec]_vars

-----------------------------------------------------------------------------
(* Properties of the object codec, checked under SpecCodec.                *)

\* Every object the state holds: the one built, and the one decoded.
ObjectsInState ==
    (IF obj # NoObject THEN {obj} ELSE {})
    \cup (IF res.tag = "Some" THEN {res.val} ELSE {})

TypeName(o) ==
    CASE o.kind = "Blob" -> Str_blob
      [] o.kind = "Tree" -> Str_tree
      [] o.kind = "Commit" -> Str_commit

Payload(o) ==
    CASE o.kind = "Blob" -> Blob_to_string(o)
      [] o.kind = "Tree" -> Tree_content(o)
      [] o.kind = "Commit" -> Commit_to_string(o)

\* b is "<name> <decimal length of what follows the first NUL>\0<payload>".
HasForm(b, name) ==
    LET i == FirstIdx(b, NUL)
        digits == SubSeq(b, Len(name) + 2, i - 1)
    IN /\ i > Len(name) + 2
       /\ SubSeq(b, 1, Len(name)) = name
       /\ b[Len(name) + 1] = SP
       /\ AllDigits(digits)
       /\ Len(digits) > 1 => digits[1] # 48
       /\ DigitsValue(digits) = Len(b) - i

WellFormedBuffer(b) == \E name \in {Str_blob, Str_tree, Str_commit} : HasForm(b, name)

\* C1: decoding a well-formed encoded object and encoding the result gives
\* back the buffer, byte for byte.
C1_RoundTrip ==
    (op.name = "cat_file" /\ WellFormedBuffer(input))
        => (res.tag = "Some" /\ GitObject_as_bytes(res.val) = input)

\* C2: as_bytes of every Blob, Tree and Commit is the type name, a space, the
\* decimal number of payload bytes, a NUL, then the payload; a Blob with
\* content "aaabbbccc" encodes to "blob 9\0aaabbbccc".
C2_EncodedForm ==
    /\ \A o \in ObjectsInState :
           LET b == GitObject_as_bytes(o)
           IN /\ HasForm(b, TypeName(o))
              /\ Tail_from(b, FirstIdx(b, NUL) + 1) = Payload(o)
    /\ (obj.kind = "Blob" /\ obj.content = Str_aaabbbccc)
           => GitObject_as_bytes(obj) = <<98, 108, 111, 98, 32, 57, 0>> \o Str_aaabbbccc

C2_Witness ==
    /\ op.name = "cat_file"
    /\ obj.kind = "Tree"
    /\ Len(obj.contents) = 2
    /\ Len(GitObject_as_bytes(obj)) > 50

\* C3: calc_hash of every object is the digest of the whole of its as_bytes,
\* and objects with the same encoded bytes have the same digest.
C3_HashOfEncoding ==
    /\ \A o \in ObjectsInState :
           GitObject_calc_hash(o) = Sha1Digest(GitObject_as_bytes(o))
    /\ \A o1, o2 \in ObjectsInState :
           GitObject_as_bytes(o1) = GitObject_as_bytes(o2)
               => GitObject_calc_hash(o1) = GitObject_calc_hash(o2)

C3_Witness ==
    /\ op.name = "cat_file"
    /\ obj.kind = "Commit"
    /\ res.tag = "Some"
    /\ res.val.kind = "Commit"

\* C9: Tree::from of the concatenated records of n files yields exactly those
\* n entries in order, whatever the 20 hash bytes are.
C9_TreeDecodeRecords ==
    (op.name = "tree_from" /\ src.tail = Tail_none)
        => (res.tag = "Some" /\ res.val.contents = src.files)

\* C10: Tree::from of records followed by a malformed tail returns the
\* entries of the records and neither fails nor aborts.  (Stated for records
\* whose hashes hold no NUL byte, so that only the tail is malformed.)
C10_TreeDecodePermissive ==
    (/\ op.name = "tree_from"
     /\ src.tail # Tail_none
     /\ \A i \in 1..Len(src.files) : \A j \in 1..20 : src.files[i].hash[j] # NUL)
        => (res.tag = "Some" /\ res.val.contents = src.files)

-----------------------------------------------------------------------------
(* index/mod.rs                                                            *)

Str_DIRC == <<68, 73, 82, 67>>

\* The fold of hex_to_num over the bytes from the last to the first: sum and
\* offs are u32, and offs << 8 drops the bits it shifts out.
RECURSIVE hex_to_num_fold(_, _, _, _)
hex_to_num_fold(hex, i, sum, offs) ==
    IF i = 0 THEN sum
    ELSE hex_to_num_fold(hex, i - 1, sum + hex[i] * offs,
                         IF offs >= 16777216 THEN 0 ELSE offs * 256)

hex_to_num(hex) == hex_to_num_fold(hex, Len(hex), 0, 1)

\* hex_to_num in the full width of u32, which is more than the numbers of
\* the model checker hold: a u32 is the pair <<hi, lo>> of its two 16-bit
\* halves.  An addition or multiplication gives the pair of the low 32 bits
\* of the result and whether the result went beyond them.
u32_mul(x, offs) ==
    LET lo == x * offs[2]
        hi == x * offs[1] + lo \div 65536
    IN [val |-> <<hi % 65536, lo % 65536>>, overflow |-> hi >= 65536]

u32_add(a, b) ==
    LET lo == a[2] + b[2]
        hi == a[1] + b[1] + lo \div 65536
    IN [val |-> <<hi % 65536, lo % 65536>>, overflow |-> hi >= 65536]

\* offs << 8: the bits shifted out are dropped.
u32_shl8(offs) ==
    <<(offs[1] * 256 + (offs[2] * 256) \div 65536) % 65536, (offs[2] * 256) % 65536>>

\* The fold over the bytes from the last (i = Len(hex)) to the first, or,
\* with step = 1, from the first to the last; overflow is whether a product
\* or a sum so far went beyond 32 bits.
RECURSIVE hex_to_num_wide_fold(_, _, _, _, _, _)
hex_to_num_wide_fold(hex, i, step, sum, offs, overflow) ==
    IF i < 1 \/ i > Len(hex) THEN [sum |-> sum, overflow |-> overflow]
    ELSE LET product == u32_mul(hex[i], offs)
             added == u32_add(sum, product.val)
         IN hex_to_num_wide_fold(hex, i + step, step, added.val, u32_shl8(offs),
                                 overflow \/ product.overflow \/ added.overflow)

\* hex_to_num without the rev(): the first byte is the least significant.
hex_to_num_wide_no_rev(hex) == hex_to_num_wide_fold(hex, 1, 1, <<0, 0>>, <<0, 1>>, FALSE)

hex_to_num_wide(hex) == hex_to_num_wide_fold(hex, Len(hex), -1, <<0, 0>>, <<0, 1>>, FALSE)

\* Utc.timestamp(secs, nsecs) panics for nanoseconds that are no part of a
\* second (a leap second's included).
ValidNanos(nsecs) == nsecs < 2000000000

Entry_from(bytes) ==
    IF Len(bytes) < 62 THEN Panic       \* a slice of the fixed fields is out of range
    ELSE LET c_time == hex_to_num(SubSeq(bytes, 1, 4))
             c_time_nano == hex_to_num(SubSeq(bytes, 5, 8))
             m_time == hex_to_num(SubSeq(bytes, 9, 12))
             m_time_nano == hex_to_num(SubSeq(bytes, 13, 16))
             name_size == hex_to_num(SubSeq(bytes, 61, 62))
             name == SubSeq(bytes, 63, 62 + name_size)
         IN IF Len(bytes) < 62 + name_size THEN Panic
            ELSE IF ~IsUtf8(name) THEN None
            ELSE IF ~ValidNanos(c_time_nano) \/ ~ValidNanos(m_time_nano) THEN Panic
            ELSE Some([c_time |-> <<c_time, c_time_nano>>,
                       m_time |-> <<m_time, m_time_nano>>,
                       dev |-> hex_to_num(SubSeq(bytes, 17, 20)),
                       inode |-> hex_to_num(SubSeq(bytes, 21, 24)),
                       mode |-> hex_to_num(SubSeq(bytes, 25, 28)),
                       uid |-> hex_to_num(SubSeq(bytes, 29, 32)),
                       gid |-> hex_to_num(SubSeq(bytes, 33, 36)),
                       size |-> hex_to_num(SubSeq(bytes, 37, 40)),
                       hash |-> SubSeq(bytes, 41, 60),
                       name |-> name])

\* Entry_size with no padding after the name.
Entry_size_unpadded(e) == 62 + Len(e.name)

Entry_size(e) ==
    LET size == 62 + Len(e.name) IN size + (8 - (size % 8))

Index_new(entries) == [entries |-> entries]

\* Index_fold with the next entry starting right after the name, the
\* padding not skipped.
RECURSIVE Index_fold_unpadded(_, _, _, _)
Index_fold_unpadded(bytes, n, offs, vec) ==
    IF n = 0 THEN Some(vec)
    ELSE IF 12 + offs > Len(bytes) THEN Panic
    ELSE LET entry == Entry_from(Tail_from(bytes, 12 + offs + 1))
         IN IF entry.tag # "Some" THEN entry
            ELSE Index_fold_unpadded(bytes, n - 1, offs + 62 + Len(entry.val.name),
                                     Append(vec, entry.val))

\* The try_fold of Index::from: n entries are still to read, offs is where
\* the next one starts, vec the entries read.
RECURSIVE Index_fold(_, _, _, _)
Index_fold(bytes, n, offs, vec) ==
    IF n = 0 THEN Some(vec)
    ELSE IF 12 + offs > Len(bytes) THEN Panic   \* &bytes[(12 + offs)..]
    ELSE LET entry == Entry_from(Tail_from(bytes, 12 + offs + 1))
         IN IF entry.tag # "Some" THEN entry
            ELSE Index_fold(bytes, n - 1, offs + Entry_size(entry.val),
                            Append(vec, entry.val))

Index_from(bytes) ==
    IF Len(bytes) < 4 THEN Panic                \* &bytes[0..4]
    ELSE IF SubSeq(bytes, 1, 4) # Str_DIRC THEN None
    ELSE IF Len(bytes) < 8 THEN Panic           \* &bytes[4..8]
    ELSE IF hex_to_num(SubSeq(bytes, 5, 8)) # 2 THEN None
    ELSE IF Len(bytes) < 12 THEN Panic          \* &bytes[8..12]
    ELSE LET entries == Index_fold(bytes, hex_to_num(SubSeq(bytes, 9, 12)), 0, <<>>)
         IN IF entries.tag = "Some" THEN Some(Index_new(entries.val)) ELSE entries

\* u32::to_be_bytes
to_be_bytes(n) ==
    <<(n \div 16777216) % 256, (n \div 65536) % 256, (n \div 256) % 256, n % 256>>

\* Entry::new and Index::as_bytes are called by lib.rs and cmd.rs and are not
\* among the source files: the constructor stores its arguments, and the
\* encoding is the one Index::from reads, each entry being its ten 32-bit
\* fields, the hash, the 16-bit length of the name, the name, and NUL bytes
\* up to Entry::size.
Entry_new(c_time, m_time, dev, inode, mode, uid, gid, size, hash, name) ==
    [c_time |-> c_time, m_time |-> m_time, dev |-> dev, inode |-> inode,
     mode |-> mode, uid |-> uid, gid |-> gid, size |-> size, hash |-> hash,
     name |-> name]

Entry_as_bytes(e) ==
    to_be_bytes(e.c_time[1]) \o to_be_bytes(e.c_time[2])
        \o to_be_bytes(e.m_time[1]) \o to_be_bytes(e.m_time[2])
        \o to_be_bytes(e.dev) \o to_be_bytes(e.inode) \o to_be_bytes(e.mode)
        \o to_be_bytes(e.uid) \o to_be_bytes(e.gid) \o to_be_bytes(e.size)
        \o e.hash
        \o <<(Len(e.name) \div 256) % 256, Len(e.name) % 256>>
        \o e.name
        \o [i \in 1..(Entry_size(e) - 62 - Len(e.name)) |-> NUL]

Index_as_bytes(index) ==
    Str_DIRC \o to_be_bytes(2) \o to_be_bytes(Len(index.entries))
        \o Flatten([i \in 1..Len(index.entries) |-> Entry_as_bytes(index.entries[i])])

-----------------------------------------------------------------------------
(* lib.rs and cmd.rs: the index operations, which the two files define      *)
(* alike.                                                                  *)

Ok(v) == [tag |-> "Ok", val |-> v]
Err(kind) == [tag |-> "Err", kind |-> kind]

\* read_index: the bytes of .git/index, or an error when there is no file.
Git_read_index(file) == IF file = Absent THEN Err("NotFound") ELSE Ok(file.bytes)

\* The empty index update_index uses when read_index fails.
EmptyIndexBytes == Str_DIRC \o to_be_bytes(2) \o to_be_bytes(0)

Git_ls_files_stage(bytes) ==
    LET index == Index_from(bytes)
    IN IF index.tag = "Some" THEN Ok(index.val)
       ELSE IF index.tag = "None" THEN Err("InvalidData")
       ELSE Panic

\* Retain with the filter's && written ||: an entry is dropped only when
\* both its name and its hash match.
RECURSIVE Retain_either(_, _)
Retain_either(entries, entry) ==
    IF entries = <<>> THEN <<>>
    ELSE IF entries[1].name # entry.name \/ entries[1].hash # entry.hash
    THEN <<entries[1]>> \o Retain_either(Tail(entries), entry)
    ELSE Retain_either(Tail(entries), entry)

\* The filter of update_index: the entries kept are those whose name and
\* whose hash both differ from the new entry's.
RECURSIVE Retain(_, _)
Retain(entries, entry) ==
    IF entries = <<>> THEN <<>>
    ELSE IF entries[1].name # entry.name /\ entries[1].hash # entry.hash
    THEN <<entries[1]>> \o Retain(Tail(entries), entry)
    ELSE Retain(Tail(entries), entry)

\* UpdateEntries without the filter: nothing is removed before the push.
UpdateEntries_no_filter(entries, entry) == Append(entries, entry)

\* UpdateEntries with the filter on the name alone.
UpdateEntries_by_name(entries, entry) ==
    LET Other(x) == x.name # entry.name IN Append(SelectSeq(entries, Other), entry)

\* The filter, collect and push of update_index.
UpdateEntries(entries, entry) == Append(Retain(entries, entry), entry)

\* update_index(hash, filename): file is .git/index, metadata what the stat
\* of filename gives, or Absent when there is no such file.
Git_update_index(file, hash, filename, metadata) ==
    LET read == Git_read_index(file)
        bytes == IF read.tag = "Ok" THEN read.val ELSE EmptyIndexBytes
        index == Git_ls_files_stage(bytes)
    IN IF index.tag # "Ok" THEN index
       ELSE IF metadata = Absent THEN Err("NotFound")
       ELSE LET entry == Entry_new(<<metadata.ctime, metadata.ctime_nsec>>,
                                   <<metadata.mtime, metadata.mtime_nsec>>,
                                   metadata.dev, metadata.ino, metadata.mode,
                                   metadata.uid, metadata.gid, metadata.size,
                                   hash, filename)
            IN Ok(Index_new(UpdateEntries(index.val.entries, entry)))

\* write_index: the file holds the encoded index.
Git_write_index(index) == FileOf(Index_as_bytes(index))

\* write_tree with each tree entry given the mode of its index entry.
Git_write_tree_index_mode(file) ==
    LET read == Git_read_index(file)
    IN IF read.tag # "Ok" THEN read
       ELSE LET index == Git_ls_files_stage(read.val)
            IN IF index.tag # "Ok" THEN index
               ELSE Ok(Tree_new([i \in 1..Len(index.val.entries) |->
                           File_new(index.val.entries[i].mode, index.val.entries[i].name,
                                    index.val.entries[i].hash)]))

\* write_tree: file is .git/index; one tree::File of mode 100644 for each
\* entry of the index.
Git_write_tree(file) ==
    LET read == Git_read_index(file)
    IN IF read.tag # "Ok" THEN read
       ELSE LET index == Git_ls_files_stage(read.val)
            IN IF index.tag # "Ok" THEN index
               ELSE Ok(Tree_new([i \in 1..Len(index.val.entries) |->
                           File_new(100644, index.val.entries[i].name,
                                    index.val.entries[i].hash)]))

-----------------------------------------------------------------------------
(* The staging index as a state machine: update_index on the index file,   *)
(* write_index of the index it returned, write_tree of the index file, and *)
(* Index::from on a buffer.                                                *)

NumNames == 3

Hash_c == [i \in 1..20 |-> 99]

\* File names of one to NumNames bytes: "a", "bb", "ccc", ...
IndexNames == {[j \in 1..i |-> 96 + i] : i \in 1..NumNames}
IndexHashes == {Hash_a, Hash_nul, Hash_c}

\* What the stat of a regular file gives.
Metadatas ==
    {[dev |-> 2049, ino |-> 7, mode |-> 33188, uid |-> 1000, gid |-> 1000, size |-> 9,
      mtime |-> 1609642799, mtime_nsec |-> 500, ctime |-> 1, ctime_nsec |-> 0]}

\* Buffers Index::from may be given: the first bytes of the index file, the
\* file with another magic or another version, and a short text.
IndexBuffers(file) ==
    LET base == IF file = Absent \/ Len(file.bytes) < 12 THEN EmptyIndexBytes
                ELSE file.bytes
    IN {SubSeq(base, 1, k) : k \in {0, 3, 4, 7, 8, 11, 12}}
       \cup {base, <<88>> \o Tail(base), <<100, 105, 114>>}
       \cup {[i \in 1..Len(base) |-> IF i = 8 THEN 3 ELSE base[i]]}

\* Index files update_index may find that Index::from does not decode: an
\* empty file, files cut inside the header, another magic, another version,
\* and a header that counts one entry with no entry after it.
CorruptIndexFiles ==
    {FileOf(SubSeq(EmptyIndexBytes, 1, k)) : k \in {0, 3, 4, 8}}
        \cup {FileOf(<<88>> \o Tail(EmptyIndexBytes)),
              FileOf(Str_DIRC \o to_be_bytes(3) \o to_be_bytes(0)),
              FileOf(Str_DIRC \o to_be_bytes(2) \o to_be_bytes(1))}

InitIndex ==
    /\ op = [name |-> "init"]
    /\ index_file \in {Absent} \cup CorruptIndexFiles
    /\ ret = None
    /\ InitCodecIdle
    /\ InitRefsIdle
    /\ InitStoreIdle
    /\ InitFsIdle

UpdateIndex ==
    \E hash \in IndexHashes, filename \in IndexNames, metadata \in Metadatas \cup {Absent} :
        /\ op' = [name |-> "update_index", hash |-> hash, filename |-> filename,
                  metadata |-> metadata]
        /\ ret' = Git_update_index(index_file, hash, filename, metadata)
        /\ UNCHANGED <<index_file, codec_vars, refs_vars, store_vars, fs_vars>>

\* write_index of the index update_index returned.
WriteIndex ==
    /\ op.name = "update_index"
    /\ ret.tag = "Ok"
    /\ op' = [name |-> "write_index"]
    /\ index_file' = Git_write_index(ret.val)
    /\ UNCHANGED <<ret, codec_vars, refs_vars, store_vars, fs_vars>>

\* Index::from of a buffer.
IndexFrom ==
    \E bytes \in IndexBuffers(index_file) :
        /\ op' = [name |-> "index_from", bytes |-> bytes]
        /\ ret' = Index_from(bytes)
        /\ UNCHANGED <<index_file, codec_vars, refs_vars, store_vars, fs_vars>>

\* write_tree of the index file.
GitWriteTree ==
    /\ op' = [name |-> "write_tree"]
    /\ ret' = Git_write_tree(index_file)
    /\ UNCHANGED <<index_file, codec_vars, refs_vars, store_vars, fs_vars>>

NextIndex == UpdateIndex \/ WriteIndex \/ IndexFrom \/ GitWriteTree

SpecIndex == InitIndex /\ [][NextIndex]_vars

-----------------------------------------------------------------------------
(* Properties of the index, checked under SpecIndex.                       *)

\* The entries Index::from reads from the index file; none when there is no
\* file or no index in it.
Decodable == index_file # Absent /\ Index_from(index_file.bytes).tag = "Some"

StoredEntries ==
    IF Decodable THEN Index_from(index_file.bytes).val.entries ELSE <<>>

Updated == op.name = "update_index" /\ ret.tag = "Ok"

Unique(entries) ==
    \A i, j \in 1..Len(entries) :
        i # j => (entries[i].name # entries[j].name /\ entries[i].hash # entries[j].hash)

\* C5: from an empty index, after any sequence of update_index operations no
\* two entries of the index have the same name, and no two the same hash.
C5_IndexUnique ==
    /\ Unique(StoredEntries)
    /\ Updated => Unique(ret.val.entries)

\* An update whose name matched one stored entry and whose hash another.
C5_Witness ==
    /\ Updated
    /\ Len(StoredEntries) = 2
    /\ Len(ret.val.entries) = 1

\* C6: update_index(hash, name) returns the entries whose name and whose hash
\* both differ from the new ones, in their order and unchanged, then the new
\* entry as the last element.
C6_UpdateResult ==
    Updated =>
        LET Kept(x) == x.name # op.filename /\ x.hash # op.hash
            kept == SelectSeq(StoredEntries, Kept)
            new == ret.val.entries[Len(ret.val.entries)]
        IN /\ Len(ret.val.entries) = Len(kept) + 1
           /\ SubSeq(ret.val.entries, 1, Len(kept)) = kept
           /\ new.name = op.filename
           /\ new.hash = op.hash
           /\ new.m_time = <<op.metadata.mtime, op.metadata.mtime_nsec>>
           /\ new.c_time = <<op.metadata.ctime, op.metadata.ctime_nsec>>
           /\ new.size = op.metadata.size
           /\ new.mode = op.metadata.mode

\* An update that removed one stored entry and kept the other.
C6_Witness ==
    /\ Updated
    /\ Len(StoredEntries) = 2
    /\ Len(ret.val.entries) = 2
    /\ ret.val.entries[1] \in {StoredEntries[1], StoredEntries[2]}

\* The entry update_index builds for a hash, a name and a stat.
EntryOf(hash, filename, metadata) ==
    Git_update_index(Absent, hash, filename, metadata).val.entries[1]

\* C7: applying the update with the same entry twice in a row yields the same
\* entries, in the same order, as applying it once.
C7_Idempotent ==
    \A hash \in IndexHashes, filename \in IndexNames, metadata \in Metadatas :
        LET entry == EntryOf(hash, filename, metadata)
            once == UpdateEntries(StoredEntries, entry)
        IN UpdateEntries(once, entry) = once

\* The update just returned the index the file already holds: it was applied
\* a second time.
C7_Witness ==
    /\ Updated
    /\ Len(StoredEntries) >= 2
    /\ ret.val.entries = StoredEntries

\* C8: Index::from returns None, and does not abort, for every buffer whose
\* first 4 bytes are not "DIRC" (shorter buffers included) and for every
\* buffer with that magic whose version field is not 2.
C8_IndexFromRejects ==
    LET b == op.bytes
        bad_magic == Len(b) < 4 \/ SubSeq(b, 1, 4) # Str_DIRC
        bad_version == Len(b) >= 8 /\ SubSeq(b, 1, 4) = Str_DIRC
                           /\ SubSeq(b, 5, 8) # <<0, 0, 0, 2>>
    IN (op.name = "index_from" /\ (bad_magic \/ bad_version)) => ret = None

\* C18: with no index file, update_index of a file that exists succeeds and
\* returns exactly the one new entry; with an index file that Index::from
\* does not decode, update_index returns an error.
C18_MissingOrUndecodable ==
    op.name = "update_index" =>
        /\ (index_file = Absent /\ op.metadata # Absent) =>
               /\ ret.tag = "Ok"
               /\ Len(ret.val.entries) = 1
               /\ ret.val.entries[1].name = op.filename
               /\ ret.val.entries[1].hash = op.hash
        /\ (index_file # Absent /\ ~Decodable) => ret.tag = "Err"

\* C19: Index::from of the file write_index wrote returns the index that was
\* written: as many entries, in the same order, every field of each the same.
C19_IndexRoundTrip ==
    op.name = "write_index" => Index_from(index_file.bytes) = Some(ret.val)

\* An index of two entries or more was written, the first with a name of two
\* bytes, after which the entry is padded with eight NUL bytes.
C19_Witness ==
    /\ op.name = "write_index"
    /\ Len(ret.val.entries) >= 2
    /\ Len(ret.val.entries[1].name) = 2
    /\ Len(StoredEntries) = Len(ret.val.entries)

MaxNameLen == 16

\* Where the i-th of the entries starts in an index file, counted from the
\* end of the 12-byte header: the sum of the sizes of the entries before it.
RECURSIVE EntryOffset(_, _)
EntryOffset(entries, i) ==
    IF i = 1 THEN 0 ELSE EntryOffset(entries, i - 1) + Entry_size(entries[i - 1])

\* C22: for a name of any length n, Entry::size is a multiple of 8, at least
\* 62 + n and at most 62 + n + 8; and each entry Index::from reads from the
\* index file is the one that starts Entry::size bytes after the start of the
\* entry before it.
C22_EntrySize ==
    /\ \A n \in 0..MaxNameLen :
           LET size == Entry_size([name |-> [i \in 1..n |-> 97]])
           IN size % 8 = 0 /\ size >= 62 + n /\ size - (62 + n) <= 8
    /\ \A e \in {StoredEntries[i] : i \in 1..Len(StoredEntries)} :
           Entry_size(e) % 8 = 0 /\ Entry_size(e) >= 62 + Len(e.name)
               /\ Entry_size(e) - (62 + Len(e.name)) <= 8
    /\ \A i \in 1..Len(StoredEntries) :
           Entry_from(Tail_from(index_file.bytes, 12 + EntryOffset(StoredEntries, i) + 1))
               = Some(StoredEntries[i])

\* Index::from read three entries of three sizes' names from the file.
C22_Witness ==
    /\ Decodable
    /\ Len(StoredEntries) = 3
    /\ {Len(StoredEntries[i].name) : i \in 1..3} = {1, 2, 3}

\* C20: write_tree of a decodable index returns a Tree with one entry for
\* each index entry, in the order of the index, each with the name and the
\* 20-byte hash of its index entry and the mode 100644.
C20_WriteTreeEntries ==
    (op.name = "write_tree" /\ Decodable) =>
        /\ ret.tag = "Ok"
        /\ ret.val.kind = "Tree"
        /\ Len(ret.val.contents) = Len(StoredEntries)
        /\ \A i \in 1..Len(StoredEntries) :
               /\ ret.val.contents[i].name = StoredEntries[i].name
               /\ ret.val.contents[i].hash = StoredEntries[i].hash
               /\ Len(ret.val.contents[i].hash) = 20
               /\ ret.val.contents[i].mode = 100644

\* write_tree of an index of two entries or more.
C20_Witness ==
    /\ op.name = "write_tree"
    /\ ret.tag = "Ok"
    /\ Len(StoredEntries) >= 2
    /\ Len(ret.val.contents) = Len(StoredEntries)

-----------------------------------------------------------------------------
(* lib.rs: HEAD, the ref it names, commit_tree and update_ref.  The only   *)
(* ref file of the model is .git/refs/heads/master.                        *)

Str_ref_prefix == <<114, 101, 102, 58, 32>>
Str_refs_heads_master ==
    <<114, 101, 102, 115, 47, 104, 101, 97, 100, 115, 47, 109, 97, 115, 116, 101, 114>>

\* head_ref: head is the file .git/HEAD.
Git_head_ref(head) ==
    IF head = Absent THEN Err("NotFound")
    ELSE LET refs == head.bytes
         IN IF ~IsUtf8(refs) THEN Err("InvalidData")
            \* refs.split_at(5) beyond the end, or inside a character
            ELSE IF Len(refs) < 5 \/ (Len(refs) > 5 /\ IsCont(refs[6], 128, 191)) THEN Panic
            ELSE IF SubSeq(refs, 1, 5) # Str_ref_prefix THEN Err("InvalidData")
            ELSE Ok(Trim(Tail_from(refs, 6)))

\* The file at .git/<path>: ref is the file refs/heads/master.
RefFileAt(path, ref) == IF path = Str_refs_heads_master THEN ref ELSE Absent

\* read_ref(path)
Git_read_ref(path, ref) ==
    LET file == RefFileAt(path, ref)
    IN IF file = Absent THEN Err("NotFound")
       ELSE IF ~IsUtf8(file.bytes) THEN Err("InvalidData")
       ELSE Ok(Trim(file.bytes))

\* self.head_ref().and_then(|x| self.read_ref(x)).ok()
Git_commit_parent(head, ref) ==
    LET path == Git_head_ref(head)
        hash == IF path.tag = "Ok" THEN Git_read_ref(path.val, ref) ELSE path
    IN IF hash.tag = "Panic" THEN Panic
       ELSE IF hash.tag = "Ok" THEN Some(hash.val)
       ELSE None

\* commit_tree: now and offset are the clock's seconds and the local offset.
Git_commit_tree(head, ref, name, email, tree_hash, message, now, offset) ==
    LET parent == Git_commit_parent(head, ref)
        author == User_new(name, email, now, offset)
    IN IF parent.tag = "Panic" THEN Panic
       ELSE Ok(Commit_new(tree_hash, parent, author, author, message))

\* write_ref: File::open opens the ref file for reading only, so there is an
\* error when the file is missing, and the write of the hex hash fails when
\* it exists (nothing is written for an empty hash).  The result and the
\* content of the ref file afterwards.
Git_write_ref(path, hash, ref) ==
    LET file == RefFileAt(path, ref)
    IN IF file = Absent THEN [result |-> Err("NotFound"), ref |-> ref]
       ELSE IF HexEncode(hash) # <<>> THEN [result |-> Err("BadFileDescriptor"), ref |-> ref]
       ELSE [result |-> Ok(<<>>), ref |-> ref]

Git_update_ref(path, hash, ref) == Git_write_ref(path, hash, ref)

-----------------------------------------------------------------------------
(* The refs as a state machine: commit_tree builds a commit from HEAD and   *)
(* the ref, update_ref is given the hash of the commit built last.         *)

MaxCommits == 3

Str_HEAD_master == Str_ref_prefix \o Str_refs_heads_master

\* What .git/HEAD may hold: the ref of the branch as the in-memory file
\* system seeds it and as git writes it, a bare hash (a detached HEAD), a
\* text shorter than the prefix, nothing; or there is no HEAD file.
HeadFiles ==
    {FileOf(Str_HEAD_master), FileOf(Str_HEAD_master \o <<LF>>),
     FileOf(HexEncode(Hash_a) \o <<LF>>), FileOf(<<114, 101, 102>>), FileOf(<<>>), Absent}

\* The ref file before the first operation: missing, or written by git.
RefFiles == {Absent, FileOf(HexEncode(Hash_c) \o <<LF>>)}

InitRefs ==
    /\ op = [name |-> "init"]
    /\ head_file \in HeadFiles
    /\ ref_file \in RefFiles
    /\ commits = <<>>
    /\ ref_ret = None
    /\ InitCodecIdle
    /\ InitIndexIdle
    /\ InitStoreIdle
    /\ InitFsIdle

\* commit_tree, and the calc_hash of the commit it returns.  The commit is
\* recorded with whether the ref file was missing when it was built and
\* whether update_ref has been called with its hash since.
CommitTree ==
    \E now \in Timestamps, message \in Messages :
        LET built == Git_commit_tree(head_file, ref_file, Str_user, Str_email,
                                     HexEncode(Hash_a), message, now, 32400)
        IN /\ Len(commits) < MaxCommits
           /\ op' = [name |-> "commit_tree", result |-> built.tag]
           /\ commits' = IF built.tag = "Ok"
                         THEN Append(commits,
                                     [commit |-> built.val,
                                      hash |-> GitObject_calc_hash(built.val),
                                      ref_missing |-> ref_file = Absent,
                                      ref_updated |-> FALSE])
                         ELSE commits
           /\ UNCHANGED <<head_file, ref_file, ref_ret, codec_vars, index_vars,
                          store_vars, fs_vars>>

\* update_ref(refs/heads/master, hash of the commit built last)
UpdateRef ==
    /\ commits # <<>>
    /\ LET n == Len(commits)
           written == Git_update_ref(Str_refs_heads_master, commits[n].hash, ref_file)
       IN /\ op' = [name |-> "update_ref"]
          /\ ref_ret' = written.result
          /\ ref_file' = written.ref
          /\ commits' = [commits EXCEPT ![n].ref_updated = TRUE]
    /\ UNCHANGED <<head_file, codec_vars, index_vars, store_vars, fs_vars>>

\* head_ref, as commit_tree calls it.
HeadRef ==
    /\ op' = [name |-> "head_ref", result |-> Git_head_ref(head_file)]
    /\ UNCHANGED <<refs_vars, codec_vars, index_vars, store_vars, fs_vars>>

NextRefs == CommitTree \/ UpdateRef \/ HeadRef

SpecRefs == InitRefs /\ [][NextRefs]_vars

-----------------------------------------------------------------------------
(* Properties of the refs, checked under SpecRefs.                         *)

\* C4: with HEAD = "ref: refs/heads/master" and no ref file, the first commit
\* has no parent; and a commit built after update_ref was called with the
\* hash of the commit before it has that hash, in hex, as its parent.
C4_CommitChain ==
    head_file = FileOf(Str_HEAD_master) =>
        /\ (commits # <<>> /\ commits[1].ref_missing)
               => commits[1].commit.parent = None
        /\ \A i \in 2..Len(commits) :
               commits[i - 1].ref_updated
                   => commits[i].commit.parent = Some(HexEncode(commits[i - 1].hash))

\* HEAD holds the literal "ref: " and then a path.
HeadIsRef ==
    /\ head_file # Absent
    /\ Len(head_file.bytes) >= 5
    /\ SubSeq(head_file.bytes, 1, 5) = Str_ref_prefix

\* C15: head_ref returns the trimmed path when HEAD starts with "ref: ", and
\* an error, neither a panic nor a path, for every other HEAD: a bare hash,
\* an empty file, a content shorter than 5 bytes.
C15_HeadRefErrors ==
    op.name = "head_ref" =>
        IF HeadIsRef THEN op.result = Ok(Trim(Tail_from(head_file.bytes, 6)))
        ELSE op.result.tag = "Err"

\* C16: commit_tree builds a commit without parent only when the ref file is
\* missing; when HEAD is there and does not start with "ref: ", it does not
\* end well and builds no commit.  (The abort of head_ref on a HEAD shorter
\* than 5 bytes, which C15 is about, is not counted against this.)
C16_MissingRefOnly ==
    (op.name = "commit_tree" /\ head_file # Absent) =>
        /\ ~HeadIsRef => op.result # "Ok"
        /\ (op.result = "Ok" /\ commits[Len(commits)].commit.parent = None)
               => (HeadIsRef /\ commits[Len(commits)].ref_missing)

-----------------------------------------------------------------------------
(* Commit::from and User::from on commit text, as the tests of commit.rs   *)
(* call them: the payload of a commit, without the object header.          *)

\* The number of lines a message may have after its first.
MaxMoreLines == 2

Str_author_name == <<97, 117, 116, 104, 111, 114>>
Str_author_email == <<97, 64, 120>>
Str_comitter_email == <<99, 64, 121>>

\* An offset token +HHMM or -HHMM.
OffsetHours == {0, 5, 9}
OffsetMinutes == {0, 30}
OffsetTokens ==
    [negative : BOOLEAN, hh : OffsetHours, mm : OffsetMinutes]

TwoDigits(n) == <<48 + (n \div 10), 48 + (n % 10)>>

TokenText(t) == <<IF t.negative THEN 45 ELSE 43>> \o TwoDigits(t.hh) \o TwoDigits(t.mm)

\* The token read as a signed decimal number.
TokenValue(t) == IF t.negative THEN 0 - (100 * t.hh + t.mm) ELSE 100 * t.hh + t.mm

\* "<name> <<email>> <unix-seconds> <token>"
UserLine(name, email, ts, t) ==
    name \o <<SP, 60>> \o email \o <<62, SP>> \o ToDec(ts) \o <<SP>> \o TokenText(t)

\* The lines of a message: a first line, then up to MaxMoreLines more, any
\* of them blank.
MessageLines ==
    {<<first>> \o more : first \in Messages, more \in SeqsUpTo({Str_m, <<>>}, MaxMoreLines)}

RECURSIVE JoinLines(_)
JoinLines(lines) ==
    IF Len(lines) = 1 THEN lines[1] ELSE lines[1] \o <<LF>> \o JoinLines(Tail(lines))

\* The texts given to Commit::from: the tree hash, the parent or none, the
\* time and offset token of the two user lines, and the message.
CommitTexts ==
    [kind : {"text"}, tree : {HexEncode(Hash_a)},
     parent : {None, Some(HexEncode(Hash_c))},
     ts : Timestamps, token : OffsetTokens, lines : MessageLines]

AuthorLine(x) == UserLine(Str_author_name, Str_author_email, x.ts, x.token)
ComitterLine(x) == UserLine(Str_comitter, Str_comitter_email, x.ts, x.token)

\* tree line, optional parent line, author line, comitter line, a blank
\* line and the message, joined with newlines as the tests join them.
CommitText(x) ==
    Str_tree \o <<SP>> \o x.tree \o <<LF>>
        \o (IF x.parent.tag = "Some" THEN Str_parent \o <<SP>> \o x.parent.val \o <<LF>>
            ELSE <<>>)
        \o Str_author \o <<SP>> \o AuthorLine(x) \o <<LF>>
        \o Str_comitter \o <<SP>> \o ComitterLine(x) \o <<LF, LF>>
        \o JoinLines(x.lines)

InitCommit ==
    /\ op = [name |-> "init"]
    /\ src \in CommitTexts
    /\ obj = NoObject
    /\ input = <<>>
    /\ res = None
    /\ InitIndexIdle
    /\ InitRefsIdle
    /\ InitStoreIdle
    /\ InitFsIdle

\* Commit::from of the text.
CommitFrom ==
    /\ op' = [name |-> "commit_from"]
    /\ input' = CommitText(src)
    /\ res' = Commit_from(input')
    /\ UNCHANGED <<src, obj, index_vars, refs_vars, store_vars, fs_vars>>

\* User::from of the author's user line.
UserFrom ==
    /\ op' = [name |-> "user_from"]
    /\ input' = AuthorLine(src)
    /\ res' = User_from(input')
    /\ UNCHANGED <<src, obj, index_vars, refs_vars, store_vars, fs_vars>>

NextCommit == CommitFrom \/ UserFrom

SpecCommit == InitCommit /\ [][NextCommit]_vars

-----------------------------------------------------------------------------
(* Properties of the commit decode, checked under SpecCommit.              *)

\* The offset in seconds a token states: (token / 100) * 3600 with integer
\* division.
StatedOffset(t) == TruncDiv(TokenValue(t), 100) * 3600

\* The user a user line states.
StatedUser(name, email, x) == User_new(name, email, x.ts, StatedOffset(x.token))

\* C11: Commit::from returns parent = None for a text without a parent line
\* and Some(hex) for one with it, and in both cases the tree, the author and
\* the comitter the lines state.
C11_CommitFromParent ==
    op.name = "commit_from" =>
        /\ res.tag = "Some"
        /\ res.val.parent = src.parent
        /\ res.val.tree = src.tree
        /\ res.val.author = StatedUser(Str_author_name, Str_author_email, src)
        /\ res.val.comitter = StatedUser(Str_comitter, Str_comitter_email, src)

\* C12: the message Commit::from returns is everything after the blank line
\* that follows the comitter line, every line of it.
C12_CommitFromMessage ==
    op.name = "commit_from" => (res.tag = "Some" /\ res.val.message = JoinLines(src.lines))

\* C13: the UTC offset of the user User::from returns is (token / 100) * 3600
\* seconds: east for a positive token, west for a negative one, minutes
\* truncated.
C13_UserOffset ==
    op.name = "user_from" => (res.tag = "Some" /\ res.val.offset = StatedOffset(src.token))

\* C14: for a text with whole-hour offsets and a one-line message,
\* Commit::from(text).to_string() is the text and a newline, and
\* User::from(line).to_string() is the line.
C14_CommitTextRoundTrip ==
    src.kind = "text" /\ src.token.mm = 0 =>
        /\ (op.name = "commit_from" /\ Len(src.lines) = 1)
               => (res.tag = "Some" /\ Commit_to_string(res.val) = input \o <<LF>>)
        /\ op.name = "user_from"
               => (res.tag = "Some" /\ User_to_string(res.val) = input)

-----------------------------------------------------------------------------
(* The object store: write_object of lib.rs and of cmd.rs, and cat_file_p. *)

\* libflate's zlib Encoder and Decoder, which are not code of this
\* repository.  The model writes the stream with one stored block, which
\* every zlib decoder reads back: the header 78 9C, the block (final, its
\* length and the complement of its length, the bytes), and the Adler-32
\* checksum of the bytes.
RECURSIVE ByteSum(_, _, _)
ByteSum(s, lo, hi) ==
    IF lo > hi THEN 0
    ELSE IF lo = hi THEN s[lo]
    ELSE LET mid == (lo + hi) \div 2
         IN (ByteSum(s, lo, mid) + ByteSum(s, mid + 1, hi)) % 65521

\* The sum of the running sums of s: byte i counts Len(s) - i + 1 times.
RECURSIVE RunningSum(_, _, _)
RunningSum(s, lo, hi) ==
    IF lo > hi THEN 0
    ELSE IF lo = hi THEN ((Len(s) - lo + 1) * s[lo]) % 65521
    ELSE LET mid == (lo + hi) \div 2
         IN (RunningSum(s, lo, mid) + RunningSum(s, mid + 1, hi)) % 65521

Adler32(s) ==
    LET a == (1 + ByteSum(s, 1, Len(s))) % 65521
        b == (Len(s) + RunningSum(s, 1, Len(s))) % 65521
    IN <<b \div 256, b % 256, a \div 256, a % 256>>

\* Encoder::new(Vec::new()), write_all(bytes), finish()
Zlib_encode(bytes) ==
    LET n == Len(bytes)
    IN <<120, 156, 1, n % 256, n \div 256, 255 - (n % 256), 255 - (n \div 256)>>
           \o bytes \o Adler32(bytes)

\* Decoder::new(buf) and read_to_end: the bytes, or an error for a stream
\* that is not well formed.
Zlib_decode(z) ==
    IF Len(z) < 11 THEN Err("InvalidData")
    ELSE LET n == z[4] + 256 * z[5]
             bytes == SubSeq(z, 8, 7 + n)
         IN IF /\ SubSeq(z, 1, 3) = <<120, 156, 1>>
               /\ z[6] = 255 - z[4]
               /\ z[7] = 255 - z[5]
               /\ Len(z) = 11 + n
               /\ SubSeq(z, 8 + n, 11 + n) = Adler32(bytes)
            THEN Ok(bytes)
            ELSE Err("InvalidData")

\* hash.split_at(2) of the hex digest: the shard directory and the file.
ObjectPath(object) ==
    LET hash == HexEncode(GitObject_calc_hash(object))
    IN <<SubSeq(hash, 1, 2), Tail_from(hash, 3)>>

\* The store after the shard directory is created when the stat of it
\* fails and the file is created with the bytes.
StoreWith(store, path, bytes) ==
    [dirs |-> store.dirs \cup {path[1]},
     files |-> (path :> bytes) @@ store.files]

\* Git::write_object: the compressed as_bytes of the object.  The result and
\* the store afterwards.
Git_write_object(object, store) ==
    [result |-> Ok(<<>>),
     objects |-> StoreWith(store, ObjectPath(object), Zlib_encode(GitObject_as_bytes(object)))]

\* cmd::write_object: the encoder is finished with nothing written to it.
Cmd_write_object(object, store) ==
    [result |-> Ok(<<>>),
     objects |-> StoreWith(store, ObjectPath(object), Zlib_encode(<<>>))]

\* GitObject::new(&buf).ok_or(InvalidData)
Cat_object(object) ==
    IF object.tag = "Panic" THEN Panic
    ELSE IF object.tag = "None" THEN Err("InvalidData")
    ELSE Ok(object.val)

\* What cat_file_p makes of the decompression: its error, or the object
\* GitObject::new reads from the bytes.
Cat_decoded(buf) ==
    IF buf.tag = "Err" THEN [result |-> buf, buf |-> <<>>]
    ELSE [result |-> Cat_object(GitObject_new(buf.val)), buf |-> buf.val]

\* File::open and read_to_end of the file at the path, then the Decoder.
Cat_file(path, store) ==
    IF path \notin DOMAIN store.files THEN [result |-> Err("NotFound"), buf |-> <<>>]
    ELSE Cat_decoded(Zlib_decode(store.files[path]))

\* cat_file_p(hash): the object read from the file of the hash, with the
\* decompressed bytes (none when there was an error before).
Cmd_cat_file_p(hash, store) ==
    IF Len(hash) < 2 THEN [result |-> Panic, buf |-> <<>>]
    ELSE Cat_file(<<SubSeq(hash, 1, 2), Tail_from(hash, 3)>>, store)

InitStore ==
    /\ op = [name |-> "init"]
    /\ src \in Sources
    /\ obj = NoObject
    /\ input = <<>>
    /\ res = None
    /\ objects = EmptyStore
    /\ InitIndexIdle
    /\ InitRefsIdle
    /\ InitFsIdle

\* Git::write_object of the object built last.
GitWriteObject ==
    /\ obj # NoObject
    /\ LET written == Git_write_object(obj, objects)
       IN /\ op' = [name |-> "write_object", by |-> "Git", result |-> written.result]
          /\ objects' = written.objects
    /\ UNCHANGED <<codec_vars, index_vars, refs_vars, fs_vars>>

\* cmd::write_object of the object built last.
CmdWriteObject ==
    /\ obj # NoObject
    /\ LET written == Cmd_write_object(obj, objects)
       IN /\ op' = [name |-> "write_object", by |-> "cmd", result |-> written.result]
          /\ objects' = written.objects
    /\ UNCHANGED <<codec_vars, index_vars, refs_vars, fs_vars>>

\* cat_file_p of the hex digest of the object built last.
CatFileP ==
    /\ obj # NoObject
    /\ \E read \in {Cmd_cat_file_p(HexEncode(GitObject_calc_hash(obj)), objects)} :
           /\ op' = [name |-> "cat_file_p"]
           /\ input' = read.buf
           /\ res' = read.result
    /\ UNCHANGED <<src, obj, index_vars, refs_vars, store_vars, fs_vars>>

NextStore ==
    HashObject \/ WriteTree \/ CommitNew \/ GitWriteObject \/ CmdWriteObject \/ CatFileP

SpecStore == InitStore /\ [][NextStore]_vars

-----------------------------------------------------------------------------
(* Properties of the object store, checked under SpecStore.                *)

\* C17: after write_object, by either implementation, the file at
\* <first 2 hex chars>/<other 38> of the digest decompresses to as_bytes of
\* the object, and cat_file_p of the digest decompresses those bytes.
C17_StoredCompressed ==
    LET path == ObjectPath(obj)
    IN /\ (op.name = "write_object" /\ op.result.tag = "Ok") =>
              /\ Len(path[1]) = 2
              /\ Len(path[2]) = 38
              /\ path[1] \in objects.dirs
              /\ path \in DOMAIN objects.files
              /\ Zlib_decode(objects.files[path]) = Ok(GitObject_as_bytes(obj))
       /\ (op.name = "cat_file_p" /\ path \in DOMAIN objects.files) =>
              input = GitObject_as_bytes(obj)

\* A step keeps every file of the store, with its bytes.
FilesKept ==
    \A path \in DOMAIN objects.files :
        path \in DOMAIN objects'.files /\ objects'.files[path] = objects.files[path]

\* C21: no write_object, by either implementation, of the same object again
\* or of another one, changes the bytes of a file the store already holds.
C21_StoreImmutable == [][FilesKept]_vars

-----------------------------------------------------------------------------
(* fs/inmem.rs: the file system kept in memory.  An Entity is a directory, *)
(* a map from names to entities, or a file, its bytes; a path is a string  *)
(* of bytes with "/" between its components.                               *)

SLASH == 47

Entity_Dir(dir) == [kind |-> "Dir", dir |-> dir]
Entity_File(data) == [kind |-> "File", data |-> data]

\* Vec<String>::join("/")
RECURSIVE JoinPath(_)
JoinPath(names) ==
    IF names = <<>> THEN <<>>
    ELSE IF Len(names) = 1 THEN names[1]
    ELSE names[1] \o <<SLASH>> \o JoinPath(Tail(names))

\* path_split: the components before the last, and the last.
path_split(path) ==
    LET iter == SplitOn(path, SLASH)
    IN <<SubSeq(iter, 1, Len(iter) - 1), iter[Len(iter)]>>

\* The try_fold of change_dir over the components of the path.
RECURSIVE Entity_walk(_, _)
Entity_walk(st, names) ==
    IF names = <<>> THEN Ok(st)
    ELSE IF st.kind = "Dir" /\ names[1] \in DOMAIN st.dir
    THEN Entity_walk(st.dir[names[1]], Tail(names))
    ELSE Err("NotFound")

Entity_change_dir(st, path) == Entity_walk(st, SplitOn(path, SLASH))

\* What change_dir_mut makes possible: st with the entity the names lead to
\* replaced by new.
RECURSIVE Entity_set(_, _, _)
Entity_set(st, names, new) ==
    IF names = <<>> THEN new
    ELSE Entity_Dir([n \in DOMAIN st.dir |->
             IF n = names[1] THEN Entity_set(st.dir[n], Tail(names), new) ELSE st.dir[n]])

Entity_read(st) == IF st.kind = "File" THEN Ok(st.data) ELSE Err("NotFound")

\* The mutating methods give their result and the entity afterwards.
Entity_write(st, name, data) ==
    IF st.kind = "Dir"
    THEN [result |-> Ok(<<>>), entity |-> Entity_Dir((name :> Entity_File(data)) @@ st.dir)]
    ELSE [result |-> Err("NotFound"), entity |-> st]

Entity_make_dir(st, name) ==
    IF st.kind = "Dir"
    THEN [result |-> Ok(<<>>), entity |-> Entity_Dir((name :> Entity_Dir(<<>>)) @@ st.dir)]
    ELSE [result |-> Err("NotFound"), entity |-> st]

\* Entity::remove of a name with no directory before it.
Entity_remove_name(st, name) ==
    IF st.kind = "Dir" /\ name \in DOMAIN st.dir
    THEN [result |-> Ok(<<>>),
          entity |-> Entity_Dir([n \in DOMAIN st.dir \ {name} |-> st.dir[n]])]
    ELSE [result |-> Err("InvalidInput"), entity |-> st]

Entity_remove(st, name) ==
    LET split == path_split(name)
    IN IF split[1] = <<>> THEN Entity_remove_name(st, split[2])
       ELSE LET path == JoinPath(split[1])
                x == Entity_change_dir(st, path)
            IN IF x.tag = "Err" THEN [result |-> x, entity |-> st]
               ELSE LET removed == Entity_remove_name(x.val, split[2])
                    IN [result |-> removed.result,
                        entity |-> Entity_set(st, SplitOn(path, SLASH), removed.entity)]

Str_dot_git == <<46, 103, 105, 116>>
Str_objects == <<111, 98, 106, 101, 99, 116, 115>>
Str_refs == <<114, 101, 102, 115>>
Str_heads == <<104, 101, 97, 100, 115>>
Str_HEAD == <<72, 69, 65, 68>>

InMemFileSystem_init ==
    Entity_Dir(Str_dot_git :> Entity_Dir(
        (Str_objects :> Entity_Dir(<<>>))
            @@ (Str_refs :> Entity_Dir(Str_heads :> Entity_Dir(<<>>)))
            @@ (Str_HEAD :> Entity_File(Str_HEAD_master))))

InMemFileSystem_read(fs, path) ==
    LET x == Entity_change_dir(fs, path)
    IN IF x.tag = "Err" THEN x ELSE Entity_read(x.val)

\* The mutating methods give their result and the root afterwards.
InMemFileSystem_write(fs, path, data) ==
    LET split == path_split(path)
        dir_name == JoinPath(split[1])
        x == IF Len(split[1]) > 0 THEN Entity_change_dir(fs, dir_name) ELSE Ok(fs)
    IN IF x.tag = "Err" THEN [result |-> x, root |-> fs]
       ELSE LET written == Entity_write(x.val, split[2], data)
                names == IF Len(split[1]) > 0 THEN SplitOn(dir_name, SLASH) ELSE <<>>
            IN [result |-> written.result, root |-> Entity_set(fs, names, written.entity)]

Metadata_of_file ==
    [dev |-> 0, ino |-> 0, mode |-> 33188, uid |-> 0, gid |-> 0, size |-> 0,
     mtime |-> 0, mtime_nsec |-> 0, ctime |-> 0, ctime_nsec |-> 0]

InMemFileSystem_stat(fs, path) ==
    LET entity == Entity_change_dir(fs, path)
    IN IF entity.tag = "Err" THEN entity
       ELSE IF entity.val.kind = "File" THEN Ok(Metadata_of_file)
       ELSE Err("InvalidData")

InMemFileSystem_create_dir(fs, path) ==
    LET split == path_split(path)
        dir_name == JoinPath(split[1])
        x == Entity_change_dir(fs, dir_name)
    IN IF x.tag = "Err" THEN [result |-> x, root |-> fs]
       ELSE LET made == Entity_make_dir(x.val, split[2])
            IN [result |-> made.result,
                root |-> Entity_set(fs, SplitOn(dir_name, SLASH), made.entity)]

InMemFileSystem_remove(fs, path) ==
    LET removed == Entity_remove(fs, path)
    IN [result |-> removed.result, root |-> removed.entity]

InMemFileSystem_rename(fs, from, to) ==
    LET file == InMemFileSystem_read(fs, from)
    IN IF file.tag = "Err" THEN [result |-> file, root |-> fs]
       ELSE LET removed == InMemFileSystem_remove(fs, from)
            IN IF removed.result.tag = "Err" THEN removed
               ELSE InMemFileSystem_write(removed.root, to, file.val)

\* The put of an object file on a FileSystem, which the code has for std::fs
\* alone (write_object): the stat of the shard directory, create_dir when
\* the stat fails, then the write of the file.
FileSystem_put(fs, shard, name, data) ==
    LET made == IF InMemFileSystem_stat(fs, shard).tag = "Err"
                THEN InMemFileSystem_create_dir(fs, shard)
                ELSE [result |-> Ok(<<>>), root |-> fs]
    IN IF made.result.tag = "Err" THEN made
       ELSE InMemFileSystem_write(made.root, shard \o <<SLASH>> \o name, data)

-----------------------------------------------------------------------------
(* The in-memory file system as a state machine: the methods of            *)
(* InMemFileSystem on the shard directories of .git/objects and the files  *)
(* in them.                                                                *)

Str_objects_dir == Str_dot_git \o <<SLASH>> \o Str_objects

\* The shard directories "ab" and "cd", the file names "x" and "y".
ShardDirs == {Str_objects_dir \o <<SLASH>> \o d : d \in {<<97, 98>>, <<99, 100>>}}
FileNames == {<<120>>, <<121>>}
FilePaths == {d \o <<SLASH>> \o n : d \in ShardDirs, n \in FileNames}
FileDatas == {<<1>>, <<2>>}

\* Paths to read and to stat: the above, .git/HEAD, and the empty path.
FsPaths == ShardDirs \cup FilePaths \cup {Str_dot_git \o <<SLASH>> \o Str_HEAD, <<>>}

InitFs ==
    /\ op = [name |-> "init"]
    /\ root = InMemFileSystem_init
    /\ InitCodecIdle
    /\ InitIndexIdle
    /\ InitRefsIdle
    /\ InitStoreIdle

FsRead ==
    \E path \in FsPaths :
        /\ op' = [name |-> "read", path |-> path, result |-> InMemFileSystem_read(root, path)]
        /\ UNCHANGED <<root, codec_vars, index_vars, refs_vars, store_vars>>

FsStat ==
    \E path \in FsPaths :
        /\ op' = [name |-> "stat", path |-> path, result |-> InMemFileSystem_stat(root, path)]
        /\ UNCHANGED <<root, codec_vars, index_vars, refs_vars, store_vars>>

FsWrite ==
    \E path \in FilePaths, data \in FileDatas :
        \E written \in {InMemFileSystem_write(root, path, data)} :
            /\ op' = [name |-> "write", path |-> path, result |-> written.result]
            /\ root' = written.root
            /\ UNCHANGED <<codec_vars, index_vars, refs_vars, store_vars>>

FsCreateDir ==
    \E path \in ShardDirs :
        \E made \in {InMemFileSystem_create_dir(root, path)} :
            /\ op' = [name |-> "create_dir", path |-> path, result |-> made.result]
            /\ root' = made.root
            /\ UNCHANGED <<codec_vars, index_vars, refs_vars, store_vars>>

FsRename ==
    \E from \in FilePaths, to \in FilePaths :
        \E renamed \in {InMemFileSystem_rename(root, from, to)} :
            /\ op' = [name |-> "rename", path |-> from, to |-> to, result |-> renamed.result]
            /\ root' = renamed.root
            /\ UNCHANGED <<codec_vars, index_vars, refs_vars, store_vars>>

FsRemove ==
    \E path \in FilePaths \cup ShardDirs :
        \E removed \in {InMemFileSystem_remove(root, path)} :
            /\ op' = [name |-> "remove", path |-> path, result |-> removed.result]
            /\ root' = removed.root
            /\ UNCHANGED <<codec_vars, index_vars, refs_vars, store_vars>>

FsPut ==
    \E shard \in ShardDirs, name \in FileNames, data \in FileDatas :
        \E put \in {FileSystem_put(root, shard, name, data)} :
            /\ op' = [name |-> "put", path |-> shard \o <<SLASH>> \o name,
                      result |-> put.result]
            /\ root' = put.root
            /\ UNCHANGED <<codec_vars, index_vars, refs_vars, store_vars>>

NextFs == FsRead \/ FsStat \/ FsWrite \/ FsCreateDir \/ FsRename \/ FsRemove \/ FsPut

SpecFs == InitFs /\ [][NextFs]_vars

-----------------------------------------------------------------------------
(* Properties of the in-memory file system, checked under SpecFs.          *)

\* A step keeps the bytes of every file of the shard directories, the file
\* at the path apart.
OthersKept(path) ==
    \A p \in FilePaths \ {path} :
        InMemFileSystem_read(root, p).tag = "Ok"
            => InMemFileSystem_read(root', p) = InMemFileSystem_read(root, p)

\* C23: a put that succeeds leaves every file stored before, the one it
\* writes apart, readable with the bytes it had; and so does a create_dir
\* that succeeds, of a directory that exists included.
C23_PutKeepsShard ==
    [][/\ (op'.name = "put" /\ op'.result.tag = "Ok") => OthersKept(op'.path)
       /\ (op'.name = "create_dir" /\ op'.result.tag = "Ok") => OthersKept(<<>>)]_vars

\* C24: a rename(from, to) of two paths that succeeds leaves at to the bytes
\* that were at from and no file at from; a rename that returns an error
\* leaves the file system as it was.
C24_RenameAllOrNothing ==
    [][(op'.name = "rename" /\ op'.path # op'.to) =>
           IF op'.result.tag = "Ok"
           THEN /\ InMemFileSystem_read(root, op'.path).tag = "Ok"
                /\ InMemFileSystem_read(root', op'.to) = InMemFileSystem_read(root, op'.path)
                /\ InMemFileSystem_read(root', op'.path).tag = "Err"
           ELSE root' = root]_vars

-----------------------------------------------------------------------------
(* index/mod.rs: hex_to_num on the slices of up to four bytes.             *)

HexWidth == 4

\* Byte values at both ends of the range and around the sign bit.
HexBytes == {0, 1, 2, 98, 127, 128, 255}

HexSlices == UNION {[1..n -> HexBytes] : n \in 0..HexWidth}

InitHex ==
    /\ op = [name |-> "init"]
    /\ input \in HexSlices
    /\ src = None
    /\ obj = NoObject
    /\ res = None
    /\ InitIndexIdle
    /\ InitRefsIdle
    /\ InitStoreIdle
    /\ InitFsIdle

HexToNum ==
    /\ op.name = "init"
    /\ op' = [name |-> "hex_to_num", result |-> hex_to_num_wide(input)]
    /\ UNCHANGED <<codec_vars, index_vars, refs_vars, store_vars, fs_vars>>

NextHex == HexToNum

SpecHex == InitHex /\ [][NextHex]_vars

\* A slice of up to four bytes with zero bytes before it to make four.
Padded(s) == [i \in 1..(HexWidth - Len(s)) |-> 0] \o s

====
